---- MODULE Spec2Model ----
(***************************************************************************)
(* django-audit-log: the request-scoped signal-handler lifecycle of        *)
(* audit_log/middleware.py.                                                *)
(*                                                                         *)
(* UserLoggingMiddleware (one request per thread) and                      *)
(* ASGIUserLoggingMiddleware (requests interleaved on one event loop)      *)
(* connect a pre_save and a post_save receiver to Django's process-wide    *)
(* signals at request-start and disconnect them at request-end.  A save    *)
(* sends both signals to every connected receiver, in connection order.    *)
(***************************************************************************)
EXTENDS Integers, Sequences, FiniteSets, TLC

\* ------------------------------------------------------------------ bounds
NReq == 2          \* request objects that can be in flight together
MaxChunks == 1     \* response-body messages with more_body an application sends
MaxSaves == 2      \* saves of the record instance over a behaviour
MaxDepth == 3      \* nesting depth of save() followed before giving up

\* ------------------------------------------------------------- value sets
Requests == 1..NReq

None == "None"

\* request.method
Methods == {"GET", "HEAD", "OPTIONS", "TRACE", "POST", "PUT", "PATCH", "DELETE"}

\* the tuple process_request and _process_request test the method against
SafeMethods == {"GET", "HEAD", "OPTIONS", "TRACE"}

\* the methods for which no tracking is to happen; the state keeps of a
\* request's method only whether it is one of these (req[r].safe)
ReadOnlyMethods == {"GET", "HEAD", "OPTIONS", "TRACE"}

\* the request carries no session: request.session does not exist and the
\* scope has no 'session'
NoSession == "no session"

\* what a request carries, as request.user / request.session under the
\* synchronous interceptor and as scope['user'] / scope['session'] under the
\* asynchronous one: a user (None when it carries none) that is authenticated
\* or not, and a session key (None when the session has no key yet)
Clients ==
    { [user |-> "alice", authenticated |-> TRUE, session |-> "abc123"],
      [user |-> "bob", authenticated |-> TRUE, session |-> "def456"],
      [user |-> "AnonymousUser", authenticated |-> FALSE, session |-> None],
      [user |-> None, authenticated |-> FALSE, session |-> NoSession] }

\* the identity of a request: its user when it has one and that user is
\* authenticated, else None
Identity(c) == IF c.user # None /\ c.authenticated THEN c.user ELSE None

\* the session token of a request: its session key, None without a session
SessionToken(c) == IF c.session = NoSession THEN None ELSE c.session

SyncClass == "UserLoggingMiddleware"

AsgiClass == "ASGIUserLoggingMiddleware"

NoReq == [layer |-> "none", safe |-> TRUE, user |-> None, session |-> None]

\* the request object as the state keeps it: its identity and its session
\* token; nothing reads the user or the session of a request with a read-only
\* method, and the state leaves them out
Request(layer, m, c) ==
    IF m \in ReadOnlyMethods
    THEN [layer |-> layer, safe |-> TRUE, user |-> None, session |-> None]
    ELSE [layer |-> layer, safe |-> FALSE,
          user |-> Identity(c), session |-> SessionToken(c)]

\* ------------------------------------------------------- the field registry
LastUserField == "LastUserField"

LastSessionKeyField == "LastSessionKeyField"

CreatingUserField == "CreatingUserField"

CreatingSessionKeyField == "CreatingSessionKeyField"

\* a record type declaring all four marker kinds, one declaring a creating
\* user field only, one declaring none
RecordTypes == {"Tracked", "Creator", "Plain"}

\* registration.FieldRegistry(kind).get_fields(sender): the field names of
\* that kind declared on exactly that record type, in declaration order
get_fields(kind, sender) ==
    IF sender = "Tracked"
    THEN CASE kind = LastUserField -> <<"modified_by">>
           [] kind = LastSessionKeyField -> <<"modified_with_session_key">>
           [] kind = CreatingUserField -> <<"created_by">>
           [] kind = CreatingSessionKeyField -> <<"created_with_session_key">>
    ELSE IF sender = "Creator" /\ kind = CreatingUserField
    THEN <<"created_by">>
    ELSE <<>>

\* `sender in registry`
in_registry(kind, sender) == Len(get_fields(kind, sender)) > 0

FieldNames(type) ==
    UNION { { get_fields(k, type)[i] : i \in 1..Len(get_fields(k, type)) } :
            k \in {LastUserField, LastSessionKeyField,
                   CreatingUserField, CreatingSessionKeyField} }

\* the value a marker field holds before any handler has assigned it
Orig == "orig"

\* --------------------------------------------------------------- the state
VARIABLES
    disabled,    \* settings.DISABLE_AUDIT_LOG
    pre_save,    \* signals.pre_save.receivers, in connection order
    post_save,   \* signals.post_save.receivers, in connection order
    req,         \* per request object: interceptor layer, method class, user, session
    pc,          \* per request: where its processing stands
    started,     \* per request: ASGIResponseWrapper.started
    out,         \* per request: how far the response has reached the transport
    nbody,       \* per request: response-body messages with more_body sent so far
    ncleanup,    \* per request: times the two disconnect calls were executed
    ret,         \* per request: what process_response returned, what __call__ raised
    inst,        \* the record instance: type, attributes, row (once saved), tracking
    tasks,       \* handler tasks created on the event loop and not yet run
    lastSave,    \* the most recent save(): who issued it and what it did
    nsaves,      \* saves issued so far
    calls,       \* per request: the calls of the wrapped application, in order
    emitted,     \* per request: messages the application gave to its send
    delivered    \* per request: messages given to the transport's send

vars == <<disabled, pre_save, post_save, req, pc, started, out, nbody,
          ncleanup, ret, inst, tasks, lastSave, nsaves,
          calls, emitted, delivered>>

appVars == <<calls, emitted, delivered>>

reqVars == <<req, pc, started, out, nbody, ncleanup, ret, appVars>>

saveVars == <<inst, tasks, lastSave, nsaves>>

\* ---------------------------------------------------- the signal dispatcher
\* dispatch_uid=(self.__class__, request,)
MutKey_ClassOnly(cls, r) == <<cls>>

Key(cls, r) == <<cls, r>>

Keys(receivers) == { receivers[i].key : i \in 1..Len(receivers) }

\* A receiver: its dispatch key, whether it is a wrapper made by
\* _make_async_signal_handler, and the user and session its partial closes over
Receiver(key, wrapped, user, session) ==
    [key |-> key, wrapped |-> wrapped, user |-> user, session |-> session]

\* Signal.connect(receiver, dispatch_uid=key, weak=False): appended unless a
\* receiver with that key is connected already
MutConnect_Duplicate(receivers, h) == Append(receivers, h)

Connect(receivers, h) ==
    IF h.key \in Keys(receivers) THEN receivers ELSE Append(receivers, h)

\* Signal.disconnect(dispatch_uid=key): the receiver with that key is removed;
\* a key that is not connected is not an error
MutDisconnect_MissingDropsOldest(receivers, key) ==
    IF key \in Keys(receivers)
    THEN SelectSeq(receivers, LAMBDA h : h.key # key)
    ELSE IF receivers = <<>> THEN receivers ELSE Tail(receivers)

Disconnect(receivers, key) ==
    SelectSeq(receivers, LAMBDA h : h.key # key)

HandlersUnder(receivers, key) ==
    SelectSeq(receivers, LAMBDA h : h.key = key)

\* ------------------------------------------------------------ the handlers
\* what one save() has done so far to the instance
SaveState(i, ts, fault) ==
    [fields |-> i.fields, saved |-> i.saved, row |-> i.row,
     tracking |-> i.tracking, tasks |-> ts, fault |-> fault,
     touched |-> {}, nested |-> 0, reentered |-> 0,
     err |-> None, overflow |-> FALSE]

Failed(s) == s.err # None \/ s.overflow

\* for field in registry.get_fields(sender): setattr(instance, field.name, v)
SetEach(s, names, v) ==
    [s EXCEPT
       !.fields = [f \in DOMAIN @ |->
                      IF \E i \in 1..Len(names) : names[i] = f THEN v ELSE @[f]],
       !.touched = @ \cup { names[i] : i \in 1..Len(names) }]

MutPreSave_AnySender(user, session, sender, s) ==
    SetEach(SetEach(s, <<"modified_by">>, user),
            <<"modified_with_session_key">>, session)

update_pre_save_info_common(user, session, sender, s) ==
    LET s1 == IF in_registry(LastUserField, sender)
              THEN SetEach(s, get_fields(LastUserField, sender), user)
              ELSE s
    IN  IF in_registry(LastSessionKeyField, sender)
        THEN SetEach(s1, get_fields(LastSessionKeyField, sender), session)
        ELSE s1

\* the wrapper of _make_async_signal_handler around a pre_save handler: with a
\* running event loop the handler becomes a task that nobody awaits, without
\* one it is called in place
async_pre_save_handler(ctx, user, session, sender, s) ==
    IF ctx = "loop"
    THEN [s EXCEPT !.tasks = Append(@, [user |-> user, session |-> session])]
    ELSE update_pre_save_info_common(user, session, sender, s)

\* a receiver of this middleware is called; a call made by the signals of a
\* nested save is counted
Called(s, depth) ==
    IF depth > 0 THEN [s EXCEPT !.reentered = @ + 1] ELSE s

RECURSIVE PreSend(_, _, _, _, _)
\* signals.pre_save.send(sender, instance): every connected receiver, in order
PreSend(receivers, ctx, sender, s, depth) ==
    IF receivers = <<>>
    THEN s
    ELSE LET h == Head(receivers)
             s0 == Called(s, depth)
             s1 == IF h.wrapped
                   THEN async_pre_save_handler(ctx, h.user, h.session, sender, s0)
                   ELSE update_pre_save_info_common(h.user, h.session, sender, s0)
         IN  PreSend(Tail(receivers), ctx, sender, s1, depth)

RECURSIVE SaveBase(_, _, _, _)
RECURSIVE PostSend(_, _, _, _, _, _)
RECURSIVE UpdateEach(_, _, _, _, _, _)

\* the `created` of post_save: the instance had no row before this save
MutCreated_Always(s) == TRUE

Created(s) == ~s.saved

\* instance.save(): pre_save to every receiver, the row written, post_save to
\* every receiver; the write of a nested save fails when the database does
SaveBase(ctx, sender, s, depth) ==
    IF depth > MaxDepth
    THEN [s EXCEPT !.overflow = TRUE]
    ELSE LET created == Created(s)
             s1 == PreSend(pre_save, ctx, sender, s, depth)
             s2 == [s1 EXCEPT !.saved = TRUE, !.row = s1.fields]
         IN  IF depth > 0 /\ s.fault
             THEN [s1 EXCEPT !.err = "DatabaseError"]
             ELSE PostSend(post_save, ctx, sender, created, s2, depth)

\* setattr, managers disabled, instance.save(), managers enabled; an error of
\* the nested save leaves before the managers are enabled again
perform_post_save_update(field, value, ctx, sender, s, depth) ==
    LET s1 == SetEach(s, <<field>>, value)
        s2 == [s1 EXCEPT !.tracking = FALSE, !.nested = @ + 1]
        s3 == SaveBase(ctx, sender, s2, depth + 1)
    IN  IF Failed(s3) THEN s3 ELSE [s3 EXCEPT !.tracking = TRUE]

UpdateEach(names, value, ctx, sender, s, depth) ==
    IF names = <<>> \/ Failed(s)
    THEN s
    ELSE UpdateEach(Tail(names), value, ctx, sender,
                    perform_post_save_update(Head(names), value, ctx, sender,
                                             s, depth),
                    depth)

MutPostSave_IgnoresCreated(user, session, ctx, sender, created, s, depth) ==
    LET s1 == IF in_registry(CreatingUserField, sender)
              THEN UpdateEach(get_fields(CreatingUserField, sender), user,
                              ctx, sender, s, depth)
              ELSE s
    IN  IF Failed(s1) \/ ~in_registry(CreatingSessionKeyField, sender)
        THEN s1
        ELSE UpdateEach(get_fields(CreatingSessionKeyField, sender),
                        session, ctx, sender, s1, depth)

update_post_save_info_common(user, session, ctx, sender, created, s, depth) ==
    IF ~created
    THEN s
    ELSE LET s1 == IF in_registry(CreatingUserField, sender)
                   THEN UpdateEach(get_fields(CreatingUserField, sender), user,
                                   ctx, sender, s, depth)
                   ELSE s
         IN  IF Failed(s1) \/ ~in_registry(CreatingSessionKeyField, sender)
             THEN s1
             ELSE UpdateEach(get_fields(CreatingSessionKeyField, sender),
                             session, ctx, sender, s1, depth)

\* the wrapper of _make_async_signal_handler around the partial of the
\* coroutine function _update_post_save_info_common_async: with a running loop
\* sync_to_async refuses the coroutine function (TypeError, not caught by the
\* wrapper); without one the call only builds a coroutine that never runs
async_post_save_handler(ctx, s) ==
    IF ctx = "loop" THEN [s EXCEPT !.err = "TypeError"] ELSE s

\* signals.post_save.send(sender, instance, created): every connected receiver,
\* in order, until one raises
PostSend(receivers, ctx, sender, created, s, depth) ==
    IF receivers = <<>> \/ Failed(s)
    THEN s
    ELSE LET h == Head(receivers)
             s0 == Called(s, depth)
             s1 == IF h.wrapped
                   THEN async_post_save_handler(ctx, s0)
                   ELSE update_post_save_info_common(h.user, h.session, ctx,
                                                     sender, created, s0, depth)
         IN  PostSend(Tail(receivers), ctx, sender, created, s1, depth)

\* ------------------------------------------------------------------- Init
\* no instance yet: the application builds it for its first save
NoInstance ==
    [type |-> None, fields |-> <<>>, saved |-> FALSE, row |-> <<>>,
     tracking |-> TRUE]

\* the attributes of an instance: the marker fields of its type and an
\* ordinary field
Attributes(type) == FieldNames(type) \cup {"name"}

\* a fresh instance of a record type: every attribute as the application
\* left it, no row, tracking enabled
NewInstance(type) ==
    [type |-> type, fields |-> [f \in Attributes(type) |-> Orig],
     saved |-> FALSE, row |-> [f \in Attributes(type) |-> Orig],
     tracking |-> TRUE]

NoSave ==
    [by |-> 0, ctx |-> None, created |-> FALSE, touched |-> {}, nested |-> 0,
     reentered |-> 0, err |-> None, overflow |-> FALSE]

Init ==
    /\ disabled \in BOOLEAN
    /\ pre_save = <<>>
    /\ post_save = <<>>
    /\ req = [r \in Requests |-> NoReq]
    /\ pc = [r \in Requests |-> "idle"]
    /\ started = [r \in Requests |-> FALSE]
    /\ out = [r \in Requests |-> "none"]
    /\ nbody = [r \in Requests |-> 0]
    /\ ncleanup = [r \in Requests |-> 0]
    /\ ret = [r \in Requests |-> "pending"]
    /\ inst = NoInstance
    /\ tasks = <<>>
    /\ lastSave = NoSave
    /\ nsaves = 0
    /\ calls = [r \in Requests |-> <<>>]
    /\ emitted = [r \in Requests |-> <<>>]
    /\ delivered = [r \in Requests |-> <<>>]

\* ------------------------------------------- identity and session capture
\* process_request: request.user when the request has one and it is
\* authenticated, else None.  _process_request: the request object __call__
\* has just built has no user attribute, so scope['user'] when the scope has
\* one, authenticated or not, else None
CapturedUser(cls, c) ==
    IF cls = SyncClass
    THEN IF c.user # None /\ c.authenticated THEN c.user ELSE None
    ELSE c.user

\* process_request reads request.session.session_key, and a request without
\* a session has no such attribute
CaptureRaises(cls, c) == cls = SyncClass /\ c.session = NoSession

\* process_request: request.session.session_key.  _process_request: the
\* request object has no session attribute, so the session key kept in
\* scope['session'] when the scope has one, else None
CapturedSession(cls, c) ==
    IF c.session = NoSession THEN None ELSE c.session

\* the two connect calls of request-start
Register(cls, r, wrapped, user, session) ==
    /\ pre_save' = Connect(pre_save, Receiver(Key(cls, r), wrapped, user, session))
    /\ post_save' = Connect(post_save, Receiver(Key(cls, r), wrapped, user, session))

\* the two disconnect calls of request-end
MutUnregister_PreOnly(cls, r) ==
    /\ pre_save' = Disconnect(pre_save, Key(cls, r))
    /\ post_save' = post_save
    /\ ncleanup' = [ncleanup EXCEPT ![r] = @ + 1]

MutUnregister_KeyWithoutRequest(cls, r) ==
    /\ pre_save' = Disconnect(pre_save, <<cls, 0>>)
    /\ post_save' = Disconnect(post_save, <<cls, 0>>)
    /\ ncleanup' = [ncleanup EXCEPT ![r] = @ + 1]

Unregister(cls, r) ==
    /\ pre_save' = Disconnect(pre_save, Key(cls, r))
    /\ post_save' = Disconnect(post_save, Key(cls, r))
    /\ ncleanup' = [ncleanup EXCEPT ![r] = @ + 1]

\* ------------------------------------------------- UserLoggingMiddleware
MutRequestStart_IgnoreSwitch(cls, r, wrapped, m, c) ==
    IF m \in SafeMethods
    THEN UNCHANGED <<pre_save, post_save>>
    ELSE Register(cls, r, wrapped, CapturedUser(cls, c), CapturedSession(cls, c))

\* the body shared by process_request and _process_request: nothing when the
\* switch is set, nothing for a safe method, else capture and connect; an
\* error of the capture leaves before anything is connected
RequestStart(cls, r, wrapped, m, c) ==
    IF disabled \/ m \in SafeMethods \/ CaptureRaises(cls, c)
    THEN UNCHANGED <<pre_save, post_save>>
    ELSE Register(cls, r, wrapped, CapturedUser(cls, c), CapturedSession(cls, c))

\* the body shared by process_exception, process_response and _cleanup_signals
RequestEnd(cls, r) ==
    IF disabled
    THEN UNCHANGED <<pre_save, post_save, ncleanup>>
    ELSE Unregister(cls, r)

\* a request that is over: the state keeps its layer and its method class
Released(q) == [q EXCEPT !.user = None, !.session = None]

\* request objects are numbered in their order of arrival
Arrives(r) ==
    /\ pc[r] = "idle"
    /\ \A q \in Requests : q < r => pc[q] # "idle"

\* request-start got as far as the capture and the capture raised
StartRaises(cls, m, c) ==
    ~disabled /\ m \notin SafeMethods /\ CaptureRaises(cls, c)

\* process_request(request); when it raises, the request never reaches the
\* view and process_response of this middleware is not called for it
process_request(r) ==
    /\ Arrives(r)
    /\ \E m \in Methods, c \in Clients :
         /\ req' = [req EXCEPT ![r] = Request("sync", m, c)]
         /\ RequestStart(SyncClass, r, FALSE, m, c)
         /\ IF StartRaises(SyncClass, m, c)
            THEN /\ pc' = [pc EXCEPT ![r] = "failed"]
                 /\ ret' = [ret EXCEPT ![r] = "AttributeError"]
            ELSE /\ pc' = [pc EXCEPT ![r] = "view"]
                 /\ UNCHANGED ret
    /\ UNCHANGED <<disabled, started, out, nbody, ncleanup, saveVars, appVars>>

\* the view raised and the framework called process_exception
process_exception(r) ==
    /\ pc[r] = "view"
    /\ RequestEnd(SyncClass, r)
    /\ pc' = [pc EXCEPT ![r] = "exc"]
    /\ UNCHANGED <<disabled, req, started, out, nbody, ret, saveVars, appVars>>

\* process_response(request, response): None when the switch is set, else
\* the response it was given
process_response(r) ==
    /\ pc[r] \in {"view", "exc"}
    /\ RequestEnd(SyncClass, r)
    /\ ret' = [ret EXCEPT ![r] = IF disabled THEN None ELSE "response"]
    /\ pc' = [pc EXCEPT ![r] = "done"]
    /\ req' = [req EXCEPT ![r] = Released(@)]
    /\ UNCHANGED <<disabled, started, out, nbody, saveVars, appVars>>

\* ------------------------------------------------------------------ saves
InFlight(r) ==
    \/ req[r].layer = "sync" /\ pc[r] = "view"
    \/ req[r].layer = "asgi" /\ pc[r] = "app"

\* code running for request r saves the instance: on the request's thread, or,
\* for a request on the event loop, inside the loop or on a worker thread
Save(r) ==
    /\ InFlight(r)
    /\ nsaves < MaxSaves
    /\ \E ctx \in IF req[r].layer = "asgi" THEN {"loop", "thread"} ELSE {"thread"},
          i \in IF inst = NoInstance
                THEN { NewInstance(type) : type \in RecordTypes }
                ELSE {inst},
          fault \in BOOLEAN :
         LET s == SaveBase(ctx, i.type, SaveState(i, tasks, fault), 0)
         IN  /\ inst' = [i EXCEPT !.fields = s.fields, !.saved = s.saved,
                                   !.row = s.row, !.tracking = s.tracking]
             /\ tasks' = s.tasks
             /\ lastSave' = [by |-> r, ctx |-> ctx, created |-> ~inst.saved,
                             touched |-> s.touched, nested |-> s.nested,
                             reentered |-> s.reentered,
                             err |-> s.err, overflow |-> s.overflow]
    /\ nsaves' = nsaves + 1
    /\ UNCHANGED <<disabled, pre_save, post_save, reqVars>>

\* the event loop runs the oldest pending handler task: the pre_save handler
\* assigns the attributes of the instance, after the row was written
RunTask ==
    /\ tasks # <<>>
    /\ LET t == Head(tasks)
           s == update_pre_save_info_common(t.user, t.session, inst.type,
                                            SaveState(inst, Tail(tasks), FALSE))
       IN  /\ inst' = [inst EXCEPT !.fields = s.fields]
           /\ tasks' = s.tasks
    /\ UNCHANGED <<disabled, pre_save, post_save, reqVars, lastSave, nsaves>>

\* --------------------------------------------- ASGIUserLoggingMiddleware
\* the types of connection scope
ScopeTypes == {"http", "websocket", "lifespan"}

\* one call of the wrapped application: the type of the scope it was given,
\* whether the middleware had put a 'request' into the scope, and the send it
\* was given: the transport's ("send") or an ASGIResponseWrapper's ("wrapper")
Call(type, request, send) == [type |-> type, request |-> request, send |-> send]

\* a response message
Message(type, more) == [type |-> type, more_body |-> more]

\* __call__ for an http scope up to the call of the wrapped application: the
\* request object is built, _process_request runs, the send wrapper is made
\* and the application is called with it
asgi_call(r) ==
    /\ Arrives(r)
    /\ \E m \in Methods, c \in Clients :
         /\ req' = [req EXCEPT ![r] = Request("asgi", m, c)]
         /\ RequestStart(AsgiClass, r, TRUE, m, c)
    /\ started' = [started EXCEPT ![r] = FALSE]
    /\ calls' = [calls EXCEPT ![r] = Append(@, Call("http", FALSE, "wrapper"))]
    /\ pc' = [pc EXCEPT ![r] = "app"]
    /\ UNCHANGED <<disabled, out, nbody, ncleanup, ret, saveVars,
                   emitted, delivered>>

Running(r) == req[r].layer = "asgi" /\ pc[r] = "app"

\* ASGIResponseWrapper.send: the first http.response.start sets started, an
\* http.response.body after it runs the cleanup, whatever its more_body; then
\* the message goes to the wrapped send
MutWrapperSend_CleanupSwallows(r, type, more) ==
    IF ~started[r] /\ type = "http.response.start"
    THEN /\ started' = [started EXCEPT ![r] = TRUE]
         /\ UNCHANGED <<pre_save, post_save, ncleanup>>
         /\ delivered' = [delivered EXCEPT ![r] = Append(@, Message(type, more))]
    ELSE IF started[r] /\ type = "http.response.body"
    THEN /\ RequestEnd(AsgiClass, r)
         /\ UNCHANGED <<started, delivered>>
    ELSE /\ UNCHANGED <<started, pre_save, post_save, ncleanup>>
         /\ delivered' = [delivered EXCEPT ![r] = Append(@, Message(type, more))]

WrapperSend(r, type, more) ==
    /\ IF ~started[r] /\ type = "http.response.start"
       THEN /\ started' = [started EXCEPT ![r] = TRUE]
            /\ UNCHANGED <<pre_save, post_save, ncleanup>>
       ELSE IF started[r] /\ type = "http.response.body"
       THEN /\ RequestEnd(AsgiClass, r)
            /\ UNCHANGED started
       ELSE UNCHANGED <<started, pre_save, post_save, ncleanup>>
    /\ delivered' = [delivered EXCEPT ![r] = Append(@, Message(type, more))]

\* the application sends http.response.start through the wrapper
app_send_start(r) ==
    /\ Running(r)
    /\ out[r] = "none"
    /\ emitted' = [emitted EXCEPT
                      ![r] = Append(@, Message("http.response.start", FALSE))]
    /\ WrapperSend(r, "http.response.start", FALSE)
    /\ out' = [out EXCEPT ![r] = "started"]
    /\ UNCHANGED <<disabled, req, pc, nbody, ret, saveVars, calls>>

\* the application sends an http.response.body through the wrapper; more_body
\* says whether another one follows
app_send_body(r) ==
    /\ Running(r)
    /\ out[r] \in {"started", "partial"}
    /\ \E more \in BOOLEAN :
         /\ more => nbody[r] < MaxChunks
         /\ emitted' = [emitted EXCEPT
                           ![r] = Append(@, Message("http.response.body", more))]
         /\ WrapperSend(r, "http.response.body", more)
         /\ out' = [out EXCEPT ![r] = IF more THEN "partial" ELSE "complete"]
         /\ nbody' = [nbody EXCEPT ![r] = IF more THEN @ + 1 ELSE @]
    /\ UNCHANGED <<disabled, req, pc, ret, saveVars, calls>>

\* __call__ is over: its ASGIResponseWrapper, the request object and the
\* connection to the transport are gone
CallOver(r) ==
    /\ started' = [started EXCEPT ![r] = FALSE]
    /\ nbody' = [nbody EXCEPT ![r] = 0]
    /\ out' = [out EXCEPT ![r] = "none"]
    /\ req' = [req EXCEPT ![r] = Released(@)]
    /\ emitted' = [emitted EXCEPT ![r] = <<>>]
    /\ delivered' = [delivered EXCEPT ![r] = <<>>]

\* the application returns: __call__ returns without any cleanup of its own
app_return(r) ==
    /\ Running(r)
    /\ pc' = [pc EXCEPT ![r] = "returned"]
    /\ CallOver(r)
    /\ UNCHANGED <<disabled, pre_save, post_save, ncleanup, ret, saveVars, calls>>

\* what the application, or the transport's send under it, can raise
AppErrors == {"ValueError", "ConnectionError"}

\* the application raises an Exception e, its own or one of the transport's
\* send: the except clause of __call__ runs _cleanup_signals and re-raises e
Mutapp_raise_NoCleanup(r) ==
    /\ Running(r)
    /\ \E e \in AppErrors : ret' = [ret EXCEPT ![r] = e]
    /\ pc' = [pc EXCEPT ![r] = "raised"]
    /\ CallOver(r)
    /\ UNCHANGED <<disabled, pre_save, post_save, ncleanup, saveVars, calls>>

app_raise(r) ==
    /\ Running(r)
    /\ RequestEnd(AsgiClass, r)
    /\ \E e \in AppErrors : ret' = [ret EXCEPT ![r] = e]
    /\ pc' = [pc EXCEPT ![r] = "raised"]
    /\ CallOver(r)
    /\ UNCHANGED <<disabled, saveVars, calls>>

\* the task running __call__ is cancelled (the client went away) while the
\* application awaits: CancelledError is no Exception, the except clause of
\* __call__ does not run
app_cancel(r) ==
    /\ Running(r)
    /\ pc' = [pc EXCEPT ![r] = "cancelled"]
    /\ CallOver(r)
    /\ UNCHANGED <<disabled, pre_save, post_save, ncleanup, ret, saveVars, calls>>

\* how a call of the wrapped application that this model does not follow
\* step by step ends: it returns, or it raises one of its errors
AppOutcome(r) ==
    \/ pc' = [pc EXCEPT ![r] = "returned"] /\ UNCHANGED ret
    \/ /\ pc' = [pc EXCEPT ![r] = "raised"]
       /\ \E e \in AppErrors : ret' = [ret EXCEPT ![r] = e]

\* ASGIUserLoggingMiddleware.__call__ for a scope that is not http: the
\* application is awaited with scope, receive and send as they came, and
\* __call__ returns
MutPassthrough_Wrapped(r) ==
    /\ Arrives(r)
    /\ \E type \in ScopeTypes \ {"http"} :
         calls' = [calls EXCEPT ![r] = Append(@, Call(type, FALSE, "wrapper"))]
    /\ req' = [req EXCEPT ![r] = [NoReq EXCEPT !.layer = "passthrough"]]
    /\ AppOutcome(r)
    /\ UNCHANGED <<disabled, pre_save, post_save, started, out, nbody, ncleanup,
                   saveVars, emitted, delivered>>

asgi_passthrough(r) ==
    /\ Arrives(r)
    /\ \E type \in ScopeTypes \ {"http"} :
         calls' = [calls EXCEPT ![r] = Append(@, Call(type, FALSE, "send"))]
    /\ req' = [req EXCEPT ![r] = [NoReq EXCEPT !.layer = "passthrough"]]
    /\ AppOutcome(r)
    /\ UNCHANGED <<disabled, pre_save, post_save, started, out, nbody, ncleanup,
                   saveVars, emitted, delivered>>

\* --------------------------------------------------- ASGIJWTAuthMiddleware
\* __call__: a scope that is not http goes to the application as it came;
\* for an http scope the request object is built, given its lazy user and put
\* into the scope, and the application is awaited with the transport's send;
\* an error of the application is logged and raised again
jwt_call(r) ==
    /\ Arrives(r)
    /\ \E type \in ScopeTypes :
         calls' = [calls EXCEPT
                     ![r] = Append(@, Call(type, type = "http", "send"))]
    /\ req' = [req EXCEPT ![r] = [NoReq EXCEPT !.layer = "jwt"]]
    /\ AppOutcome(r)
    /\ UNCHANGED <<disabled, pre_save, post_save, started, out, nbody, ncleanup,
                   saveVars, emitted, delivered>>

\* ------------------------------------------------------------------- Next
\* the requests' own steps: request-start, the response, request-end
Lifecycle ==
    \/ \E r \in Requests : process_request(r)
    \/ \E r \in Requests : process_exception(r)
    \/ \E r \in Requests : process_response(r)
    \/ \E r \in Requests : asgi_call(r)
    \/ \E r \in Requests : app_send_start(r)
    \/ \E r \in Requests : app_send_body(r)
    \/ \E r \in Requests : app_return(r)
    \/ \E r \in Requests : app_raise(r)
    \/ \E r \in Requests : app_cancel(r)
    \/ \E r \in Requests : asgi_passthrough(r)
    \/ \E r \in Requests : jwt_call(r)

Next ==
    \/ Lifecycle
    \/ \E r \in Requests : Save(r)
    \/ RunTask

Spec == Init /\ [][Next]_vars

\* the requests alone, with no save in between: Save and RunTask change
\* neither the dispatcher nor any request's variables
SpecLifecycle == Init /\ [][Lifecycle]_vars

\* request-start runs a second time for a request object that is in flight
\* (process_request or _process_request called again with the same request),
\* with the user and session the request carries by then
request_start_again(r) ==
    /\ InFlight(r)
    /\ \E m \in Methods, c \in Clients :
         /\ (m \in ReadOnlyMethods) = req[r].safe
         /\ req' = [req EXCEPT ![r] = Request(req[r].layer, m, c)]
         /\ req'[r] # req[r]
         /\ ~StartRaises(IF req[r].layer = "asgi" THEN AsgiClass ELSE SyncClass,
                         m, c)
         /\ RequestStart(IF req[r].layer = "asgi" THEN AsgiClass ELSE SyncClass,
                         r, req[r].layer = "asgi", m, c)
    /\ UNCHANGED <<disabled, pc, started, out, nbody, ncleanup, ret, saveVars,
                   appVars>>

NextRestart == Lifecycle \/ \E r \in Requests : request_start_again(r)

SpecRestart == Init /\ [][NextRestart]_vars

\* with the switch set nothing is ever connected and no task is ever made, so
\* RunTask is left out
InitDisabled == Init /\ disabled = TRUE

NextDisabled == Lifecycle \/ \E r \in Requests : Save(r)

SpecDisabled == InitDisabled /\ [][NextDisabled]_vars

\* ------------------------------------------------- vocabulary of the claims
ClassOf(r) == IF req[r].layer = "asgi" THEN AsgiClass ELSE SyncClass

KeyOf(r) == Key(ClassOf(r), r)

AllKeys == Keys(pre_save) \cup Keys(post_save)

\* request-start of r went past both early returns
Registering(r) ==
    /\ req[r].layer \in {"sync", "asgi"} /\ ~req[r].safe
    /\ ~disabled /\ pc[r] # "failed"

SyncEnded(r) == req[r].layer = "sync" /\ pc[r] = "done"

AsgiEnded(r) == req[r].layer = "asgi" /\ pc[r] \in {"returned", "raised", "cancelled"}

\* this step is a save issued by request r
SavedBy(r) == nsaves' = nsaves + 1 /\ lastSave'.by = r

\* the attributes of the instance that hold value v
Holding(i, v) == { f \in DOMAIN i.fields : i.fields[f] = v }

\* ----------------------------------------------------------------- claims
\* C1: two requests with non-safe methods and distinct identities are in
\* flight together; a record written while processing one of them ends with
\* its last-modifier fields equal to that request's identity and session, and
\* no marker field of it holds the other request's identity or session.
C1_OwnIdentityOnly ==
    [][\A a, b \in Requests :
          ( /\ a # b /\ SavedBy(a)
            /\ InFlight(a) /\ InFlight(b) /\ Registering(a) /\ Registering(b)
            /\ req[a].user # None /\ req[b].user # None
            /\ req[a].user # req[b].user /\ req[a].session # req[b].session
            /\ inst'.type = "Tracked" )
          => /\ Holding(inst', req[b].user) = {}
             /\ Holding(inst', req[b].session) = {}
             /\ lastSave'.ctx = "thread" =>
                   /\ inst'.fields["modified_by"] = req[a].user
                   /\ inst'.fields["modified_with_session_key"] = req[a].session
      ]_vars

\* C2: after a request of the synchronous interceptor has ended, by
\* process_response alone or by process_exception and then process_response,
\* neither dispatcher holds a receiver under that request's key.
C2_NoHandlerAfterSyncEnd ==
    \A r \in Requests : SyncEnded(r) => Key(SyncClass, r) \notin AllKeys

\* two tracked synchronous requests have ended, one by process_response alone
\* and one through process_exception
C2_Witness ==
    \E a, b \in Requests :
        /\ SyncEnded(a) /\ Registering(a) /\ ncleanup[a] = 1
        /\ SyncEnded(b) /\ Registering(b) /\ ncleanup[b] = 2

\* C3: once __call__ of the asynchronous interceptor has finished for an http
\* request (application returned, raised, or was cancelled), neither
\* dispatcher holds a receiver under that request's key.
C3_NoHandlerAfterAsgiEnd ==
    \A r \in Requests : AsgiEnded(r) => Key(AsgiClass, r) \notin AllKeys

\* C4: in the asynchronous layer a tracked request's handlers stay connected
\* until its response body has been sent completely, so a save the
\* application issues on a worker thread between two body messages is
\* stamped with the request's identity and session.
C4_ConnectedUntilBodyComplete ==
    [][\A r \in Requests :
          ( /\ Running(r) /\ Registering(r) /\ out[r] = "partial"
            /\ SavedBy(r) /\ lastSave'.ctx = "thread"
            /\ inst'.type = "Tracked" )
          => /\ Key(AsgiClass, r) \in Keys(pre_save)
             /\ Key(AsgiClass, r) \in Keys(post_save)
             /\ "modified_by" \in lastSave'.touched
             /\ "modified_with_session_key" \in lastSave'.touched
      ]_vars

\* C5: for every request that connected handlers, the two disconnect calls
\* have run exactly once when the request has ended, on every exit path of
\* both interceptors.
C5_CleanupExactlyOnce ==
    \A r \in Requests :
        (Registering(r) /\ (SyncEnded(r) \/ AsgiEnded(r))) => ncleanup[r] = 1

\* what belongs to request b is the same before and after the step
Untouched(b) ==
    /\ req'[b] = req[b] /\ pc'[b] = pc[b] /\ started'[b] = started[b]
    /\ out'[b] = out[b] /\ nbody'[b] = nbody[b] /\ ncleanup'[b] = ncleanup[b]

\* C6: two requests in flight together have distinct registration keys, and a
\* step of one request (its request-start, its request-end) leaves the
\* receivers connected under another request's key as they were.
C6_KeysPerRequest ==
    /\ [](\A a, b \in Requests :
             (a # b /\ InFlight(a) /\ InFlight(b)) => KeyOf(a) # KeyOf(b))
    /\ [][\A b \in Requests, cls \in {SyncClass, AsgiClass} :
             Untouched(b) =>
               /\ HandlersUnder(pre_save', Key(cls, b))
                    = HandlersUnder(pre_save, Key(cls, b))
               /\ HandlersUnder(post_save', Key(cls, b))
                    = HandlersUnder(post_save, Key(cls, b))
         ]_vars

\* two tracked requests of one interceptor class were in flight together; one
\* has ended and run its cleanup, the other still has both its receivers
C6_Witness ==
    \E a, b \in Requests :
        /\ a # b /\ ClassOf(a) = ClassOf(b)
        /\ Registering(a) /\ (SyncEnded(a) \/ AsgiEnded(a)) /\ ncleanup[a] >= 1
        /\ Registering(b) /\ InFlight(b)
        /\ KeyOf(b) \in Keys(pre_save) /\ KeyOf(b) \in Keys(post_save)

AtMostOnePerKey ==
    \A k \in AllKeys :
        /\ Len(HandlersUnder(pre_save, k)) <= 1
        /\ Len(HandlersUnder(post_save, k)) <= 1

\* the receivers connected under the key of r close over exactly (u, s)
InForce(receivers, r, u, s) ==
    \A i \in 1..Len(receivers) :
        receivers[i].key = KeyOf(r) =>
            receivers[i].user = u /\ receivers[i].session = s

\* this step is a second request-start of r
StartedAgain(r) == InFlight(r) /\ pc'[r] = pc[r] /\ req'[r] # req[r]

C8_SafeMethodUntracked ==
    /\ \A r \in Requests :
          (req[r].layer # "none" /\ req[r].safe) => KeyOf(r) \notin AllKeys
    /\ (lastSave.by # 0 /\ req[lastSave.by].safe) => lastSave.touched = {}

\* C9: with the switch set, no receiver is connected in either dispatcher,
\* and a save issued by a request with a non-safe method on a record type
\* with all four marker kinds assigns none of the four fields, in memory or
\* in the row.
C9_DisabledTouchesNothing ==
    disabled =>
      /\ pre_save = <<>> /\ post_save = <<>> /\ tasks = <<>>
      /\ (lastSave.by # 0 /\ ~req[lastSave.by].safe /\ inst.type = "Tracked") =>
            /\ lastSave.touched = {} /\ lastSave.nested = 0
            /\ \A f \in FieldNames("Tracked") :
                  inst.fields[f] = Orig /\ inst.row[f] = Orig

\* with the switch set, a POST of each interceptor has been started and one of
\* them has created a record of the type with all four marker kinds
C9_Witness ==
    /\ disabled
    /\ \E a, b \in Requests :
          /\ req[a].layer = "sync" /\ ~req[a].safe
          /\ req[b].layer = "asgi" /\ ~req[b].safe
    /\ lastSave.by # 0 /\ ~req[lastSave.by].safe
    /\ lastSave.created /\ inst.type = "Tracked" /\ inst.saved

\* C10: with the switch set, request-start, request-end and the exception
\* step leave the dispatchers as they were, and process_response returns the
\* response it was given.
C10_DisabledNoEffect ==
    disabled =>
      /\ pre_save = <<>> /\ post_save = <<>>
      /\ \A r \in Requests : SyncEnded(r) => ret[r] = "response"

\* the only receivers connected are those of request r
Alone(r) == AllKeys \subseteq {KeyOf(r)}

\* this step is a save issued by request r, a request that connected its
\* handlers, run on a thread, of an instance whose type is in `types`
StampedSave(r, types) ==
    /\ SavedBy(r) /\ InFlight(r) /\ Registering(r)
    /\ lastSave'.ctx = "thread" /\ inst'.type \in types

\* C11: a request with a non-safe method, an authenticated user and session
\* key "abc123" saves a record whose type has a last-user and a
\* last-session-key field: the save leaves the first equal to the request's
\* user and the second equal to "abc123".
C11_LastModifierStamped ==
    [][\A r \in Requests :
          ( /\ StampedSave(r, {"Tracked"})
            /\ req[r].user # None /\ req[r].session = "abc123" )
          => /\ inst'.fields["modified_by"] = req[r].user
             /\ inst'.fields["modified_with_session_key"] = "abc123"
      ]_vars

\* C12: a request without a user and with a non-safe method saves a record:
\* the save leaves the last-user field None, whatever it held before.
C12_AnonymousOverwrites ==
    [][\A r \in Requests :
          (StampedSave(r, {"Tracked"}) /\ req[r].user = None)
          => inst'.fields["modified_by"] = None
      ]_vars

\* C13: a request that connected its handlers creates a record whose type has
\* a creating-user field: after the save the field equals the request's user,
\* and exactly one nested save was made to persist it.
C13_CreatorStampedByOneNestedSave ==
    [][\A r \in Requests :
          (StampedSave(r, {"Creator"}) /\ lastSave'.created)
          => /\ inst'.fields["created_by"] = req[r].user
             /\ lastSave'.nested = 1
      ]_vars

\* C14: the pre_save and post_save signals of a nested save, issued by the
\* post_save handler while tracking is disabled, call no receiver of this
\* middleware again.
C14_NestedSaveCallsNoHandler ==
    lastSave.nested > 0 => lastSave.reentered = 0

\* the creating-kind marker fields a record type declares
CreatingFields(type) ==
    Len(get_fields(CreatingUserField, type))
      + Len(get_fields(CreatingSessionKeyField, type))

\* C15: every save terminates: the nesting of saves never passes MaxDepth,
\* and a save makes at most one nested save per creating-kind field and
\* connected request.
C15_SaveTerminates ==
    /\ ~lastSave.overflow
    /\ lastSave.by # 0 => lastSave.nested <= CreatingFields(inst.type) * NReq

\* a record with two creating-kind fields was created while two requests had
\* their handlers connected: four nested saves, and the save returned
C15_Witness ==
    /\ lastSave.by # 0 /\ lastSave.created /\ inst.type = "Tracked"
    /\ lastSave.nested = 4 /\ lastSave.err = None /\ ~lastSave.overflow

\* C16: when the nested save of the post_save handler fails, tracking is
\* enabled again on the instance before the failure leaves the handler:
\* no save, failed or not, leaves the instance with tracking disabled.
C16_TrackingRestored ==
    inst.tracking = TRUE

\* this step runs the two disconnect calls for request r
CleanupStep(r) == ncleanup'[r] = ncleanup[r] + 1

\* C17: the disconnect calls of a request-end whose request never connected
\* (safe method) or whose receivers are gone already change neither
\* dispatcher, so every other request's receivers stay connected, and the
\* step ends as it does otherwise: process_response returns the response.
C17_CleanupOfMissingKeyIsNoOp ==
    [][\A r \in Requests :
          (CleanupStep(r) /\ KeyOf(r) \notin AllKeys)
          => /\ pre_save' = pre_save /\ post_save' = post_save
             /\ pc'[r] = "done" => ret'[r] = "response"
      ]_vars

\* a request that connected has ended after running its disconnect calls
\* twice, while another request is in flight with both its receivers connected
C17_Witness ==
    \E a, b \in Requests :
        /\ a # b /\ Registering(a) /\ (SyncEnded(a) \/ AsgiEnded(a))
        /\ ncleanup[a] = 2
        /\ Registering(b) /\ InFlight(b)
        /\ KeyOf(b) \in Keys(pre_save) /\ KeyOf(b) \in Keys(post_save)

\* C18: a request of the asynchronous interceptor, its handlers connected,
\* saves a record inside the running event loop: the row written holds the
\* request's user and session in the last-modifier fields, and the save
\* leaves no handler task behind that nobody awaits.
C18_StampedBeforeRowWritten ==
    [][\A r \in Requests :
          ( /\ SavedBy(r) /\ Running(r) /\ Registering(r)
            /\ AllKeys = {KeyOf(r)}
            /\ lastSave'.ctx = "loop" /\ inst'.type = "Tracked" )
          => /\ inst'.row["modified_by"] = req[r].user
             /\ inst'.row["modified_with_session_key"] = req[r].session
             /\ tasks' = <<>>
      ]_vars

\* C19: a request of the asynchronous interceptor, its handlers connected,
\* creates a record whose type has both creating-kind fields, inside the
\* event loop or on a worker thread: as under the synchronous interceptor,
\* the save raises nothing, makes one nested save per creating-kind field,
\* and leaves created_by and created_with_session_key equal to the request's
\* user and session.
C19_AsyncStampsAsSync ==
    [][\A r \in Requests :
          ( /\ SavedBy(r) /\ Running(r) /\ Registering(r)
            /\ AllKeys = {KeyOf(r)}
            /\ lastSave'.created /\ inst'.type = "Tracked"
            /\ lastSave'.err # "DatabaseError" )
          => /\ lastSave'.err = None
             /\ lastSave'.nested = CreatingFields("Tracked")
             /\ inst'.fields["created_by"] = req[r].user
             /\ inst'.fields["created_with_session_key"] = req[r].session
      ]_vars

\* C20: when the application of the asynchronous interceptor raises, the
\* disconnect calls have run by the time the error leaves __call__, no
\* receiver is left under the request's key, and the error that leaves is
\* one the application raised.
C20_CleanupBeforeReraise ==
    \A r \in Requests :
        (req[r].layer = "asgi" /\ pc[r] = "raised")
        => /\ Key(AsgiClass, r) \notin AllKeys
           /\ ret[r] \in AppErrors
           /\ Registering(r) => ncleanup[r] >= 1

\* a request that connected its handlers has ended by an error of its
\* application, and its disconnect calls ran in the except clause alone
C20_Witness ==
    \E r \in Requests :
        /\ req[r].layer = "asgi" /\ pc[r] = "raised" /\ Registering(r)
        /\ ncleanup[r] = 1 /\ ret[r] \in AppErrors

\* C21: request-start of a request with a non-safe method and no session
\* never raises, under either interceptor: no request ends in its
\* request-start, the handlers are connected with session None.
C21_CaptureNeverRaises ==
    \A r \in Requests : pc[r] # "failed"

\* C22: the user the handlers of a request in flight close over is the
\* request's identity: its user when it has one and that user is
\* authenticated, else None, also when the user comes from the scope.
C22_CapturedIdentity ==
    \A r \in Requests :
        InFlight(r) =>
            \A i \in 1..Len(pre_save) :
                pre_save[i].key = KeyOf(r) => pre_save[i].user = req[r].user

\* this step is the request-start of r under the asynchronous interceptor,
\* past both early returns
AsgiStartStep(r) ==
    /\ pc[r] = "idle" /\ pc'[r] = "app"
    /\ ~disabled /\ ~req'[r].safe

\* the receivers grew by exactly one, connected under key k
OneMore(before, after, k) ==
    /\ Len(after) = Len(before) + 1
    /\ SubSeq(after, 1, Len(before)) = before
    /\ after[Len(after)].key = k

\* C23: the asynchronous interceptor connects and disconnects under one key,
\* (ASGIUserLoggingMiddleware, request), on both dispatchers: request-start
\* adds exactly one receiver under it to pre_save and one to post_save, and
\* the cleanup removes exactly the receivers under it, so that the two
\* dispatchers always hold the same keys.
C23_OneKeyBothWays ==
    /\ [](Keys(pre_save) = Keys(post_save))
    /\ [][\A r \in Requests :
             /\ AsgiStartStep(r) =>
                  /\ OneMore(pre_save, pre_save', Key(AsgiClass, r))
                  /\ OneMore(post_save, post_save', Key(AsgiClass, r))
             /\ (req[r].layer = "asgi" /\ CleanupStep(r)) =>
                  /\ Keys(pre_save') = Keys(pre_save) \ {Key(AsgiClass, r)}
                  /\ Keys(post_save') = Keys(post_save) \ {Key(AsgiClass, r)}
         ]_vars

\* a request of the asynchronous interceptor connected its receivers and its
\* cleanup has removed them, while another request's receivers stay connected
C23_Witness ==
    \E a, b \in Requests :
        /\ a # b /\ req[a].layer = "asgi" /\ Registering(a) /\ ncleanup[a] = 1
        /\ Key(AsgiClass, a) \notin AllKeys
        /\ req[b].layer = "asgi" /\ Registering(b) /\ Running(b)
        /\ Key(AsgiClass, b) \in Keys(pre_save)
        /\ Key(AsgiClass, b) \in Keys(post_save)

\* C24: for a scope that is not http, both asynchronous interceptors call
\* the application exactly once, with the scope as it came and the
\* transport's send, not a wrapper's, and connect no receiver.
C24_NonHttpPassesThrough ==
    /\ [](\A r \in Requests :
             \A i \in 1..Len(calls[r]) :
                 calls[r][i].type # "http" =>
                     /\ Len(calls[r]) = 1
                     /\ ~calls[r][i].request
                     /\ calls[r][i].send = "send"
                     /\ req[r].layer \in {"passthrough", "jwt"})
    /\ [][\A r \in Requests :
             (pc[r] = "idle" /\ req'[r].layer \in {"passthrough", "jwt"})
             => /\ pre_save' = pre_save /\ post_save' = post_save
                /\ Len(calls'[r]) = 1
         ]_vars

\* a websocket connection has gone through each of the two interceptors
C24_Witness ==
    \E a, b \in Requests :
        /\ req[a].layer = "passthrough" /\ req[b].layer = "jwt"
        /\ calls[a] = <<Call("websocket", FALSE, "send")>>
        /\ calls[b] = <<Call("websocket", FALSE, "send")>>

\* C25: for an http request the application is called exactly once, with the
\* wrapper's send, and the messages the wrapper has given to the transport's
\* send are the messages the application gave to the wrapper, each once and
\* in the same order, whether the cleanup ran or not.
C25_WrapperForwardsEverything ==
    \A r \in Requests :
        req[r].layer = "asgi" =>
            /\ calls[r] = <<Call("http", FALSE, "wrapper")>>
            /\ delivered[r] = emitted[r]

\* an application has sent the start and two body messages through the
\* wrapper, the cleanup ran at each body message
C25_Witness ==
    \E r \in Requests :
        /\ Running(r) /\ Registering(r) /\ ncleanup[r] = 2
        /\ Len(emitted[r]) = 3 /\ delivered[r] = emitted[r]

\* the creating-kind fields of a record type
CreatingNames(type) ==
    { f \in FieldNames(type) :
        \/ \E i \in 1..Len(get_fields(CreatingUserField, type)) :
              get_fields(CreatingUserField, type)[i] = f
        \/ \E i \in 1..Len(get_fields(CreatingSessionKeyField, type)) :
              get_fields(CreatingSessionKeyField, type)[i] = f }

\* C26: a save of a record that has its row already (created is False): the
\* post_save handlers leave every creating-kind field as it was (the row
\* gets the value the attribute had when save was called), make no nested
\* save and leave the tracking switch of the instance alone.
C26_UpdateLeavesCreatorAlone ==
    [][\A r \in Requests :
          (SavedBy(r) /\ inst.saved)
          => /\ ~lastSave'.created
             /\ lastSave'.nested = 0
             /\ lastSave'.touched \cap CreatingNames(inst.type) = {}
             /\ \A f \in CreatingNames(inst.type) :
                   inst'.fields[f] = inst.fields[f] /\ inst'.row[f] = inst.fields[f]
             /\ inst'.tracking = inst.tracking
      ]_vars

\* a record with creating-kind fields, created and stamped earlier, has been
\* saved again by a request of the synchronous interceptor whose handlers ran
C26_Witness ==
    /\ lastSave.by # 0 /\ ~lastSave.created /\ lastSave.ctx = "thread"
    /\ req[lastSave.by].layer = "sync" /\ Registering(lastSave.by)
    /\ inst.type = "Tracked" /\ inst.fields["created_by"] # Orig
    /\ "modified_by" \in lastSave.touched /\ lastSave.nested = 0

\* the receivers of the synchronous interceptor among the connected ones
PlainReceivers == Len(SelectSeq(post_save, LAMBDA h : ~h.wrapped))

====
